---- MODULE Spec2Model ----
(***************************************************************************)
(* The Cloudinary signing proxy.  The repository holds four variants of    *)
(* the same express service:                                               *)
(*   "roleAdmin"  src/index.js 1-204     requireAuth, requireAdmin         *)
(*   "keyEmail"   src/index.js 206-351   requireSignerKey, requireAdmin    *)
(*   "open"       src/index.js 353-418   no middleware                     *)
(*   "rolesDoc"   src/unnamed/part_000   requireAuth,                      *)
(*                                       requireAdminOrModeratorByRolesDoc *)
(* A deployment runs one of them.  Node runs the code between two awaits   *)
(* atomically, so one action is one such stretch of a request's chain.     *)
(***************************************************************************)
EXTENDS Integers, Sequences, FiniteSets, TLC

VARIABLES variant, envSet, fbInit, signerKeySet, adminEmailSet,
          roles, now, reqs

vars == <<variant, envSet, fbInit, signerKeySet, adminEmailSet, roles, now, reqs>>

\* ---------------------------------------------------------------- bounds
\* Requests the service receives in one behaviour.
MaxReq == 2
\* Seconds the clock advances past its first value.
MaxTick == 1

\* ------------------------------------------------------------ JS values
Absent == "<undefined>"
Null == "<null>"
Falsy(v) == v \in {Absent, Null, ""}

Variants == {"roleAdmin", "keyEmail", "open", "rolesDoc"}
UsesRoleStore == variant \in {"roleAdmin", "rolesDoc"}

\* process.env values when set
CLOUD_NAME == IF envSet THEN "demo" ELSE Absent
API_KEY == IF envSet THEN "key123" ELSE Absent
API_SECRET == IF envSet THEN "abc" ELSE Absent
SIGNER_KEY == IF signerKeySet THEN "s3cret" ELSE Absent
ADMIN_EMAIL == IF adminEmailSet THEN "boss@shop.io" ELSE ""

\* Math.floor(Date.now() / 1000)
Clock == 1000..(1000 + MaxTick)

\* ---------------------------------------------------------------- Signer
\* UTF-16 code units of the parameter names, which Array.prototype.sort compares.
CodeUnits(k) ==
  CASE k = "folder" -> <<102, 111, 108, 100, 101, 114>>
    [] k = "public_id" -> <<112, 117, 98, 108, 105, 99, 95, 105, 100>>
    [] k = "timestamp" -> <<116, 105, 109, 101, 115, 116, 97, 109, 112>>

RECURSIVE LexLess(_, _)
LexLess(a, b) ==
  IF a = <<>> THEN b # <<>>
  ELSE IF b = <<>> THEN FALSE
  ELSE IF Head(a) # Head(b) THEN Head(a) < Head(b)
  ELSE LexLess(Tail(a), Tail(b))

RECURSIVE InsertKey(_, _)
InsertKey(k, s) ==
  IF s = <<>> THEN <<k>>
  ELSE IF LexLess(CodeUnits(k), CodeUnits(Head(s))) THEN <<k>> \o s
  ELSE <<Head(s)>> \o InsertKey(k, Tail(s))

RECURSIVE SortKeysRec(_)
SortKeysRec(ks) == IF ks = <<>> THEN <<>> ELSE InsertKey(Head(ks), SortKeysRec(Tail(ks)))

\* Object.keys(params).sort()
SortKeys(ks) == SortKeysRec(ks)

Digit(d) == CASE d = 0 -> "0" [] d = 1 -> "1" [] d = 2 -> "2" [] d = 3 -> "3" [] d = 4 -> "4"
              [] d = 5 -> "5" [] d = 6 -> "6" [] d = 7 -> "7" [] d = 8 -> "8" [] d = 9 -> "9"

\* `${n}` for a non-negative integer
RECURSIVE DecStr(_)
DecStr(n) == IF n < 10 THEN Digit(n) ELSE DecStr(n \div 10) \o Digit(n % 10)

\* params is the object as a sequence of [k, v] in insertion order
ParamKeys(params) == [i \in 1..Len(params) |-> params[i].k]
ParamValue(params, k) == params[CHOOSE i \in 1..Len(params) : params[i].k = k].v

RECURSIVE JoinAmp(_)
JoinAmp(s) ==
  IF s = <<>> THEN ""
  ELSE IF Len(s) = 1 THEN s[1]
  ELSE s[1] \o "&" \o JoinAmp(Tail(s))

\* Object.keys(params).sort().map((k) => `${k}=${params[k]}`).join("&")
StringToSign(params) ==
  LET ks == SortKeys(ParamKeys(params))
  IN JoinAmp([i \in 1..Len(ks) |-> ks[i] \o "=" \o ParamValue(params, ks[i])])

\* crypto.createHash("sha1").update(s).digest("hex"): an injective stand-in
Sha1Hex(s) == "sha1(" \o s \o ")"

\* const params = { folder, timestamp }; if (public_id) params.public_id = public_id;
SignParams(folder, timestamp, public_id) ==
  <<[k |-> "folder", v |-> folder], [k |-> "timestamp", v |-> DecStr(timestamp)]>>
  \o (IF Falsy(public_id) THEN <<>> ELSE <<[k |-> "public_id", v |-> public_id]>>)

\* ------------------------------------------------------ external oracles
Uids == {"u1", "u2"}

\* Firestore roles/{uid}: no document, a document without a role field, or
\* the stored role string (the console can store any string).
NoDoc == "<no doc>"
NoField == Absent
GetFailed == "<get failed>"
\* snap before get() has returned
NoSnap == "<none>"
\* The stores a behaviour starts from: every stored value, for one uid or the other.
InitialStores ==
  {[u1 |-> "admin", u2 |-> "moderator"],
   [u1 |-> "Admin", u2 |-> NoDoc],
   [u1 |-> "user", u2 |-> NoField]}

\* Authorization header, split at its first space; [scheme |-> ""] is no header.
NoAuth == [scheme |-> "", token |-> ""]
AuthHeaders ==
  {NoAuth} \cup [scheme : {"Bearer"}, token : {"bad", "t1", "t2"}]
           \cup {[scheme |-> "bearer", token |-> "t3"]}

\* x-signer-key header; only the keyEmail variant reads it.
KeyHeaders == IF variant = "keyEmail" THEN {Absent, "wrong", "s3cret"} ELSE {Absent}

\* admin.auth().verifyIdToken(idToken): the decoded claims, or a rejection.
Rejected == [ok |-> FALSE, uid |-> Absent, email |-> Absent]
NoUser == Rejected
VerifyIdToken(idToken) ==
  CASE idToken = "t1" -> {[ok |-> TRUE, uid |-> "u1", email |-> " Boss@Shop.io"]}
    [] idToken = "t2" -> {[ok |-> TRUE, uid |-> "u2", email |-> "eve@shop.io"]}
    [] idToken = "t3" -> {[ok |-> TRUE, uid |-> "u2", email |-> Absent]}
    [] OTHER -> {Rejected}

\* The remote destroy call: no response at all, or a status and a body text.
RemoteOutcomes ==
  {[net |-> FALSE, status |-> 0, text |-> ""],
   [net |-> TRUE, status |-> 200, text |-> "{\"result\":\"ok\"}"],
   [net |-> TRUE, status |-> 200, text |-> "{\"result\":\"not found\"}"],
   [net |-> TRUE, status |-> 502, text |-> "Bad Gateway"]}

\* resp before fetch has returned
NoResp == [net |-> FALSE, status |-> 0, text |-> "<none>"]

\* JSON.parse(text), null when it throws
ParseJson(text) ==
  CASE text = "{\"result\":\"ok\"}" -> [json |-> TRUE, result |-> "ok"]
    [] text = "{\"result\":\"not found\"}" -> [json |-> TRUE, result |-> "not found"]
    [] OTHER -> [json |-> FALSE, result |-> text]

\* ------------------------------------------------------------- requests
Endpoints ==
  CASE variant = "roleAdmin" -> {"/sign", "/cloudinary/delete"}
    [] variant = "rolesDoc" -> {"/sign", "/cloudinary/delete", "/roles/set"}
    [] OTHER -> {"/sign"}

\* req.body after express.json(); timestamp is <<>> when the key is absent.
EmptyBody == [folder |-> Absent, public_id |-> Absent, timestamp |-> <<>>,
              uid |-> Absent, role |-> Absent]
Bodies(ep) ==
  CASE ep = "/sign" ->
         {[EmptyBody EXCEPT !.folder = f, !.public_id = p] :
            f \in {Absent, "", "x"}, p \in {Absent, "", "p1"}}
         \cup {[EmptyBody EXCEPT !.folder = "x", !.public_id = p, !.timestamp = <<7>>] :
                 p \in {Absent, "", "p1"}}
         \cup {[EmptyBody EXCEPT !.folder = "x", !.public_id = Null]}
    [] ep = "/cloudinary/delete" ->
         {[EmptyBody EXCEPT !.public_id = p] : p \in {Absent, "", "p1"}}
    [] ep = "/roles/set" ->
         {[EmptyBody EXCEPT !.uid = u, !.role = ro] :
            u \in {Absent} \cup Uids, ro \in {"root", "admin", "user"}}

Idle == [ep |-> "", auth |-> NoAuth, key |-> Absent, body |-> EmptyBody, pc |-> "idle",
         user |-> NoUser, role |-> Absent, out |-> <<>>, trace |-> <<>>, snap |-> NoSnap,
         sent |-> "", recv |-> NoResp]
NewReq(ep, auth, key) == [Idle EXCEPT !.ep = ep, !.auth = auth, !.key = key, !.pc = "new"]

\* return res.status(status).json(body)
Respond(q, status, body) ==
  [q EXCEPT !.out = Append(@, [status |-> status, body |-> body]),
            !.trace = Append(@, "res"), !.pc = "done"]

\* await of an external call: the chain stops until the call returns
Await(q, call, pc) == [q EXCEPT !.trace = Append(@, call), !.pc = pc]

\* public_id ?? null
OrNull(v) == IF v \in {Absent, Null} THEN Null ELSE v

\* --------------------------------------------------------- sign handlers
\* The 200 body of /sign: timestamp, params, stringToSign, signature.
\* debug: the variants that also return stringToSign.
SignResponse(body, timestamp, debug) ==
  LET params == SignParams(body.folder, timestamp, body.public_id)
      stringToSign == StringToSign(params)
      signature == Sha1Hex(stringToSign \o API_SECRET)
      res == [cloudName |-> CLOUD_NAME, apiKey |-> API_KEY, timestamp |-> timestamp,
              signature |-> signature, folder |-> body.folder,
              public_id |-> OrNull(body.public_id)]
  IN IF debug THEN res @@ [stringToSign |-> stringToSign] ELSE res

Hashed(q) == [q EXCEPT !.trace = Append(@, "sha1")]

\* A handler that signs the timestamp of the request body when there is one.
sign_rolesDoc_bodyTimestamp(q, body) ==
  LET b == [q EXCEPT !.body = body]
  IN IF Falsy(body.folder) THEN Respond(b, 400, [error |-> "folder required"])
     ELSE IF ~envSet THEN Respond(b, 500, [error |-> "Cloudinary env vars not set"])
     ELSE Respond(Hashed(b), 200,
                  SignResponse(body, IF body.timestamp # <<>> THEN body.timestamp[1] ELSE now, TRUE))

\* A handler that rejects only an absent folder.
sign_rolesDoc_emptyFolder(q, body) ==
  LET b == [q EXCEPT !.body = body]
  IN IF body.folder = Absent THEN Respond(b, 400, [error |-> "folder required"])
     ELSE IF ~envSet THEN Respond(b, 500, [error |-> "Cloudinary env vars not set"])
     ELSE Respond(Hashed(b), 200, SignResponse(body, now, TRUE))

\* part_000: app.post("/sign", ...) handler
sign_rolesDoc(q, body) ==
  LET b == [q EXCEPT !.body = body]
  IN IF Falsy(body.folder) THEN Respond(b, 400, [error |-> "folder required"])
     ELSE IF ~envSet THEN Respond(b, 500, [error |-> "Cloudinary env vars not set"])
     ELSE Respond(Hashed(b), 200, SignResponse(body, now, TRUE))

\* index.js, first variant: mustHaveEnv() throws into the handler's catch
sign_roleAdmin(q, body) ==
  LET b == [q EXCEPT !.body = body]
  IN IF ~envSet THEN Respond(b, 500, [error |-> "Error: Cloudinary env vars not set"])
     ELSE IF ~fbInit THEN Respond(b, 500, [error |-> "Error: Firebase Admin not initialized"])
     ELSE IF Falsy(body.folder) THEN Respond(b, 400, [error |-> "folder required"])
     ELSE Respond(Hashed(b), 200, SignResponse(body, now, FALSE))

\* index.js, second variant
sign_keyEmail(q, body) ==
  LET b == [q EXCEPT !.body = body]
  IN IF Falsy(body.folder) THEN Respond(b, 400, [error |-> "folder required"])
     ELSE IF ~envSet THEN Respond(b, 500, [error |-> "Cloudinary env vars not set"])
     ELSE Respond(Hashed(b), 200, SignResponse(body, now, TRUE))

\* index.js, third variant: the whole chain of /sign
sign_open(q, body) ==
  LET b == [q EXCEPT !.body = body]
  IN IF Falsy(body.folder) THEN Respond(b, 400, [error |-> "folder required"])
     ELSE IF ~envSet THEN Respond(b, 500, [error |-> "Server env vars not set"])
     ELSE Respond(Hashed(b), 200, SignResponse(body, now, TRUE))

\* ------------------------------------------------------- delete handlers
\* json ?? text
JsonOrText(text) ==
  LET json == ParseJson(text) IN IF json.json THEN [result |-> json.result] ELSE text

\* part_000: handler up to await fetch(url, ...)
delete_rolesDoc(q, body) ==
  LET b == [q EXCEPT !.body = body]
  IN IF Falsy(body.public_id) THEN Respond(b, 400, [error |-> "public_id required"])
     ELSE IF ~envSet THEN Respond(b, 500, [error |-> "Cloudinary env vars not set"])
     ELSE LET timestamp == now
              stringToSign == "public_id=" \o body.public_id \o "&timestamp=" \o DecStr(timestamp)
              signature == Sha1Hex(stringToSign \o API_SECRET)
          IN Await([Hashed(b) EXCEPT !.sent = signature], "destroy", "remote")

\* A handler that answers 200 whatever the remote status.
delete_rolesDoc_resume_ignoreStatus(q, resp) ==
  IF ~resp.net THEN Respond(q, 500, [error |-> "TypeError: fetch failed"])
  ELSE Respond(q, 200, [ok |-> TRUE, cloudinary |-> JsonOrText(resp.text)])

\* part_000: handler from the response of fetch on
delete_rolesDoc_resume(q, resp) ==
  IF ~resp.net THEN Respond(q, 500, [error |-> "TypeError: fetch failed"])
  ELSE IF resp.status \notin 200..299
       THEN Respond(q, 500, [error |-> "Cloudinary destroy failed", status |-> resp.status,
                             body |-> JsonOrText(resp.text)])
       ELSE Respond(q, 200, [ok |-> TRUE, cloudinary |-> JsonOrText(resp.text)])

\* index.js, first variant: handler up to await cloudinary.uploader.destroy(...)
delete_roleAdmin(q, body) ==
  LET b == [q EXCEPT !.body = body]
  IN IF ~envSet
     THEN Respond(b, 500, [error |-> "Cloudinary delete failed",
                           details |-> "Error: Cloudinary env vars not set"])
     ELSE IF ~fbInit
     THEN Respond(b, 500, [error |-> "Cloudinary delete failed",
                           details |-> "Error: Firebase Admin not initialized"])
     ELSE IF Falsy(body.public_id) THEN Respond(b, 400, [error |-> "public_id required"])
     ELSE Await(b, "destroy", "remote")

\* index.js, first variant: the library resolves on a 2xx answer and rejects otherwise
delete_roleAdmin_resume(q, resp) ==
  IF resp.net /\ resp.status \in 200..299
  THEN Respond(q, 200, [ok |-> TRUE, public_id |-> q.body.public_id,
                        result |-> JsonOrText(resp.text)])
  ELSE Respond(q, 500, [error |-> "Cloudinary delete failed", details |-> resp.text])

\* ------------------------------------------------------ role-write handler
\* A handler without its own admin check.
rolesSet_noAdminCheck(q, body) ==
  LET b == [q EXCEPT !.body = body]
  IN IF Falsy(body.uid) THEN Respond(b, 400, [error |-> "uid required"])
     ELSE IF body.role \notin {"admin", "moderator", "user"}
          THEN Respond(b, 400, [error |-> "invalid role"])
          ELSE Await(b, "roles.set", "write")

\* part_000: app.post("/roles/set", ...) handler up to await ...set(...)
rolesSet(q, body) ==
  LET b == [q EXCEPT !.body = body]
  IN IF q.role # "admin" THEN Respond(q, 403, [error |-> "Admins only"])
     ELSE IF Falsy(body.uid) THEN Respond(b, 400, [error |-> "uid required"])
     ELSE IF body.role \notin {"admin", "moderator", "user"}
          THEN Respond(b, 400, [error |-> "invalid role"])
          ELSE Await(b, "roles.set", "write")

\* part_000: handler after set(...) resolved (written) or rejected
rolesSet_resume(q, written) ==
  IF written THEN Respond(q, 200, [ok |-> TRUE, uid |-> q.body.uid, role |-> q.body.role])
  ELSE Respond(q, 500, [error |-> "Error: set failed"])

\* A write that is acknowledged and not stored.
RolesSet_dropped(uid, role) == roles

\* roles/{uid}.set({ role, updatedAt }, { merge: true })
RolesSet(uid, role) == [roles EXCEPT ![uid] = role]

\* ------------------------------------------------------------ middleware
\* auth.startsWith("Bearer ") ? auth.slice(7).trim() : null
BearerToken(auth) == IF auth.scheme = "Bearer" THEN auth.token ELSE Null

\* authHeader.match(/^Bearer (.+)$/i): match[1], or null
BearerMatch(auth) ==
  IF auth.scheme \in {"Bearer", "bearer", "BEARER"} /\ auth.token # "" THEN auth.token ELSE Null

\* (s || "").trim().toLowerCase() on the e-mail addresses of the model
TrimLower(s) ==
  CASE s \in {Absent, Null, ""} -> ""
    [] s = " Boss@Shop.io" -> "boss@shop.io"
    [] OTHER -> s

\* (role || "").toString().toLowerCase().trim() on the stored roles of the model
LowerTrim(s) ==
  CASE s \in {Absent, Null, ""} -> ""
    [] s = "Admin" -> "admin"
    [] OTHER -> s

\* admin.firestore().collection("roles").doc(uid).get()
RolesGet(uid) == roles[uid]

Handler_rolesDoc(q, body) ==
  CASE q.ep = "/sign" -> sign_rolesDoc(q, body)
    [] q.ep = "/cloudinary/delete" -> delete_rolesDoc(q, body)
    [] q.ep = "/roles/set" -> rolesSet(q, body)

Handler_roleAdmin(q, body) ==
  CASE q.ep = "/sign" -> sign_roleAdmin(q, body)
    [] q.ep = "/cloudinary/delete" -> delete_roleAdmin(q, body)

\* A gate that lets every resolved role pass.
requireAdminOrModeratorByRolesDoc_resume_anyRole(q, snap, body) ==
  IF snap = GetFailed
  THEN Respond(q, 500, [error |-> "Role check failed", details |-> "Error: get failed"])
  ELSE Handler_rolesDoc([q EXCEPT !.role = LowerTrim(IF snap = NoDoc THEN "" ELSE snap)], body)

\* A gate that requires admin.
requireAdminOrModeratorByRolesDoc_resume_adminOnly(q, snap, body) ==
  IF snap = GetFailed
  THEN Respond(q, 500, [error |-> "Role check failed", details |-> "Error: get failed"])
  ELSE LET role == LowerTrim(IF snap = NoDoc THEN "" ELSE snap)
       IN IF role # "admin"
          THEN Respond(q, 403, [error |-> "Forbidden: admin/moderator only"])
          ELSE Handler_rolesDoc([q EXCEPT !.role = role], body)

\* A gate that answers 403 without returning.
requireAdminOrModeratorByRolesDoc_resume_noReturn(q, snap, body) ==
  IF snap = GetFailed
  THEN Respond(q, 500, [error |-> "Role check failed", details |-> "Error: get failed"])
  ELSE LET role == LowerTrim(IF snap = NoDoc THEN "" ELSE snap)
       IN IF role # "admin" /\ role # "moderator"
          THEN Handler_rolesDoc(
                 Respond([q EXCEPT !.role = role], 403, [error |-> "Forbidden: admin/moderator only"]),
                 body)
          ELSE Handler_rolesDoc([q EXCEPT !.role = role], body)

\* part_000: requireAdminOrModeratorByRolesDoc from the snapshot on, and next()
requireAdminOrModeratorByRolesDoc_resume(q, snap, body) ==
  IF snap = GetFailed
  THEN Respond(q, 500, [error |-> "Role check failed", details |-> "Error: get failed"])
  ELSE LET role == LowerTrim(IF snap = NoDoc THEN "" ELSE snap)
       IN IF role # "admin" /\ role # "moderator"
          THEN Respond(q, 403, [error |-> "Forbidden: admin/moderator only"])
          ELSE Handler_rolesDoc([q EXCEPT !.role = role], body)

\* part_000: requireAdminOrModeratorByRolesDoc up to await ...get()
requireAdminOrModeratorByRolesDoc(q) ==
  IF Falsy(q.user.uid) THEN Respond(q, 401, [error |-> "No uid"])
  ELSE Await(q, "roles.get", "role")

\* part_000: requireAuth up to await verifyIdToken(idToken)
requireAuth_rolesDoc(q) ==
  IF ~fbInit THEN Respond(q, 500, [error |-> "Firebase Admin not initialized"])
  ELSE IF Falsy(BearerToken(q.auth)) THEN Respond(q, 401, [error |-> "Missing Authorization token"])
  ELSE Await(q, "verifyIdToken", "verify")

\* part_000: requireAuth from the decoded token on, and next()
requireAuth_rolesDoc_resume(q, decoded) ==
  IF ~decoded.ok
  THEN Respond(q, 401, [error |-> "Invalid token", details |-> "Error: token rejected"])
  ELSE requireAdminOrModeratorByRolesDoc([q EXCEPT !.user = decoded])

\* index.js, first variant: requireAdmin from the snapshot on, and next()
requireAdmin_roleAdmin_resume(q, snap, body) ==
  IF snap = GetFailed
  THEN Respond(q, 500, [error |-> "Role check failed", details |-> "Error: get failed"])
  ELSE LET role == IF snap = NoDoc \/ Falsy(snap) THEN "user" ELSE snap
       IN IF role # "admin" THEN Respond(q, 403, [error |-> "Not admin"])
          ELSE Handler_roleAdmin(q, body)

\* index.js, first variant: requireAdmin up to await ...get()
requireAdmin_roleAdmin(q) ==
  IF Falsy(q.user.uid) THEN Respond(q, 401, [error |-> "No user in request"])
  ELSE Await(q, "roles.get", "role")

\* index.js, first variant: requireAuth up to await verifyIdToken(idToken);
\* what mustHaveEnv() throws lands in requireAuth's catch
requireAuth_roleAdmin(q) ==
  IF ~envSet
  THEN Respond(q, 401, [error |-> "Invalid token", details |-> "Error: Cloudinary env vars not set"])
  ELSE IF ~fbInit
  THEN Respond(q, 401, [error |-> "Invalid token", details |-> "Error: Firebase Admin not initialized"])
  ELSE IF Falsy(BearerToken(q.auth))
  THEN Respond(q, 401, [error |-> "Missing Authorization Bearer token"])
  ELSE Await(q, "verifyIdToken", "verify")

\* index.js, first variant: requireAuth from the decoded token on, and next()
requireAuth_roleAdmin_resume(q, decoded) ==
  IF ~decoded.ok
  THEN Respond(q, 401, [error |-> "Invalid token", details |-> "Error: token rejected"])
  ELSE requireAdmin_roleAdmin([q EXCEPT !.user = decoded])

\* index.js, second variant: requireAdmin up to await verifyIdToken(idToken)
requireAdmin_keyEmail(q) ==
  IF ~fbInit THEN Respond(q, 500, [error |-> "Firebase Admin not initialized"])
  ELSE IF ADMIN_EMAIL = "" THEN Respond(q, 500, [error |-> "Server ADMIN_EMAIL not set"])
  ELSE IF BearerMatch(q.auth) = Null
  THEN Respond(q, 401, [error |-> "Missing Authorization Bearer token"])
  ELSE Await(q, "verifyIdToken", "verify")

\* index.js, second variant: requireAdmin from the decoded token on, and next()
requireAdmin_keyEmail_resume(q, decoded, body) ==
  IF ~decoded.ok
  THEN Respond(q, 401, [error |-> "Invalid token", details |-> "Error: token rejected"])
  ELSE LET email == TrimLower(decoded.email)
       IN IF email = "" THEN Respond(q, 403, [error |-> "Token has no email"])
          ELSE IF email # ADMIN_EMAIL THEN Respond(q, 403, [error |-> "Not admin"])
          ELSE sign_keyEmail([q EXCEPT !.user = decoded], body)

\* index.js, second variant: requireSignerKey, and next()
requireSignerKey(q) ==
  IF Falsy(SIGNER_KEY) THEN Respond(q, 500, [error |-> "Server SIGNER_KEY not set"])
  ELSE IF Falsy(q.key) \/ q.key # SIGNER_KEY THEN Respond(q, 401, [error |-> "Invalid signer key"])
  ELSE requireAdmin_keyEmail(q)

\* The token the variant's gate sent to verifyIdToken.
IdToken(q) == IF variant = "keyEmail" THEN BearerMatch(q.auth) ELSE BearerToken(q.auth)

\* --------------------------------------------------------------- actions
\* No response is waiting to be flushed.  Flushing a response touches nothing
\* another request reads, so the model flushes it before any other step.
Flushed == \A r \in 1..MaxReq : reqs[r].pc # "done"

Init ==
  /\ variant \in Variants
  /\ envSet \in BOOLEAN
  /\ fbInit \in (IF variant = "open" THEN {FALSE} ELSE BOOLEAN)
  /\ signerKeySet \in (IF variant = "keyEmail" THEN BOOLEAN ELSE {FALSE})
  /\ adminEmailSet \in (IF variant = "keyEmail" THEN BOOLEAN ELSE {FALSE})
  /\ roles \in (IF UsesRoleStore /\ fbInit THEN InitialStores ELSE {[u \in Uids |-> NoDoc]})
  /\ now = 1000
  /\ reqs = [r \in 1..MaxReq |-> Idle]

\* express dispatches the request to the first function of its route
Dispatch(q, body) ==
  CASE variant = "roleAdmin" -> requireAuth_roleAdmin(q)
    [] variant = "keyEmail" -> requireSignerKey(q)
    [] variant = "open" -> sign_open(q, body)
    [] variant = "rolesDoc" -> requireAuth_rolesDoc(q)

\* The next request arrives and runs up to its first await.
Arrive(r) ==
  /\ Flushed
  /\ reqs[r].pc = "idle"
  /\ \A k \in 1..(r - 1) : reqs[k].pc # "idle"
  /\ \E ep \in Endpoints, auth \in AuthHeaders, key \in KeyHeaders :
       \E body \in Bodies(ep) :
         reqs' = [reqs EXCEPT ![r] = Dispatch(NewReq(ep, auth, key), body)]
  /\ UNCHANGED <<variant, envSet, fbInit, signerKeySet, adminEmailSet, roles, now>>

\* verifyIdToken settles; the chain runs up to its next await.
VerifyReturn(r) ==
  /\ Flushed
  /\ reqs[r].pc = "verify"
  /\ \E decoded \in VerifyIdToken(IdToken(reqs[r])), body \in Bodies(reqs[r].ep) :
       reqs' = [reqs EXCEPT ![r] =
                  CASE variant = "roleAdmin" -> requireAuth_roleAdmin_resume(@, decoded)
                    [] variant = "keyEmail" -> requireAdmin_keyEmail_resume(@, decoded, body)
                    [] variant = "rolesDoc" -> requireAuth_rolesDoc_resume(@, decoded)]
  /\ UNCHANGED <<variant, envSet, fbInit, signerKeySet, adminEmailSet, roles, now>>

\* The role document is read (or the read fails); the chain runs up to its next await.
RoleReturn(r) ==
  /\ Flushed
  /\ reqs[r].pc = "role"
  /\ \E snap \in {RolesGet(reqs[r].user.uid), GetFailed}, body \in Bodies(reqs[r].ep) :
       reqs' = [reqs EXCEPT ![r] =
                  CASE variant = "roleAdmin" ->
                         requireAdmin_roleAdmin_resume([@ EXCEPT !.snap = snap], snap, body)
                    [] variant = "rolesDoc" ->
                         requireAdminOrModeratorByRolesDoc_resume([@ EXCEPT !.snap = snap], snap, body)]
  /\ UNCHANGED <<variant, envSet, fbInit, signerKeySet, adminEmailSet, roles, now>>

\* The remote destroy call settles.
RemoteReturn(r) ==
  /\ Flushed
  /\ reqs[r].pc = "remote"
  /\ \E resp \in RemoteOutcomes :
       reqs' = [reqs EXCEPT ![r] =
                  CASE variant = "roleAdmin" -> delete_roleAdmin_resume([@ EXCEPT !.recv = resp], resp)
                    [] variant = "rolesDoc" -> delete_rolesDoc_resume([@ EXCEPT !.recv = resp], resp)]
  /\ UNCHANGED <<variant, envSet, fbInit, signerKeySet, adminEmailSet, roles, now>>

\* The role write is applied (or fails).
WriteReturn(r) ==
  /\ Flushed
  /\ reqs[r].pc = "write"
  /\ \E written \in BOOLEAN :
       /\ roles' = IF written THEN RolesSet(reqs[r].body.uid, reqs[r].body.role) ELSE roles
       /\ reqs' = [reqs EXCEPT ![r] = rolesSet_resume(@, written)]
  /\ UNCHANGED <<variant, envSet, fbInit, signerKeySet, adminEmailSet, now>>

\* A second passes.
Tick ==
  /\ Flushed
  /\ now < 1000 + MaxTick
  /\ now' = now + 1
  /\ UNCHANGED <<variant, envSet, fbInit, signerKeySet, adminEmailSet, roles, reqs>>

\* The response has left; the request object is dropped.
Close(r) ==
  /\ reqs[r].pc = "done"
  /\ reqs' = [reqs EXCEPT ![r] = [Idle EXCEPT !.pc = "closed"]]
  /\ UNCHANGED <<variant, envSet, fbInit, signerKeySet, adminEmailSet, roles, now>>

Next ==
  \/ \E r \in 1..MaxReq : Close(r)
  \/ \E r \in 1..MaxReq : Arrive(r)
  \/ \E r \in 1..MaxReq : VerifyReturn(r)
  \/ \E r \in 1..MaxReq : RoleReturn(r)
  \/ \E r \in 1..MaxReq : RemoteReturn(r)
  \/ \E r \in 1..MaxReq : WriteReturn(r)
  \/ Tick

Spec == Init /\ [][Next]_vars

\* ---------------------------------------------------------------- claims
Live(q) == q.pc \notin {"idle", "closed"}
InTrace(q, e) == \E i \in 1..Len(q.trace) : q.trace[i] = e
HasSignature(q) == \E i \in 1..Len(q.out) : "signature" \in DOMAIN q.out[i].body
Answered(q, status) == q.pc = "done" /\ Len(q.out) = 1 /\ q.out[1].status = status

\* The request carries no Authorization header or, where the signer key is
\* checked, not the configured x-signer-key.
NoCredential(q) == q.auth = NoAuth \/ (variant = "keyEmail" /\ q.key # "s3cret")

\* Everything the variant's gate needs is configured.
Configured ==
  CASE variant = "roleAdmin" -> envSet /\ fbInit
    [] variant = "keyEmail" -> signerKeySet /\ fbInit /\ adminEmailSet
    [] variant = "rolesDoc" -> fbInit
    [] variant = "open" -> envSet

\* The request passed its variant's Authorization Gate.
PassedGate(q) ==
  CASE variant = "roleAdmin" -> q.user.ok /\ q.snap = "admin"
    [] variant = "keyEmail" -> q.user.ok
    [] variant = "rolesDoc" -> q.role # Absent
    [] variant = "open" -> TRUE

\* C1: in every variant a /sign request without credential (no Authorization
\* header; a missing or wrong x-signer-key where that key is checked) never
\* gets a body with a signature, and on a configured server it is answered 401.
C1_NoCredentialNoSignature ==
  \A r \in 1..MaxReq :
    LET q == reqs[r]
    IN Live(q) /\ q.ep = "/sign" /\ NoCredential(q)
       => /\ ~HasSignature(q)
          /\ (Configured /\ q.pc = "done" => Answered(q, 401))

\* C2: with the role store, a verified caller whose role record is "user",
\* has no role field or does not exist is answered 403 on /sign and
\* /cloudinary/delete, and the handler is never entered: the body is not
\* read, nothing is signed, nothing is sent to the remote API.
C2_UserRoleForbidden ==
  \A r \in 1..MaxReq :
    LET q == reqs[r]
    IN UsesRoleStore /\ q.ep \in {"/sign", "/cloudinary/delete"} /\ q.user.ok
       /\ q.snap \in {NoDoc, NoField, "user"}
       => /\ Answered(q, 403)
          /\ ~InTrace(q, "sha1") /\ ~InTrace(q, "destroy")
          /\ q.body = EmptyBody /\ q.sent = ""

C2_Witness ==
  \E r \in 1..MaxReq :
    /\ variant = "rolesDoc" /\ reqs[r].ep = "/cloudinary/delete"
    /\ reqs[r].user.ok /\ reqs[r].snap = NoDoc /\ Answered(reqs[r], 403)

\* C3: /roles/set by a caller whose resolved role is "moderator" is answered
\* 403 "Admins only" and never calls set(); a request that calls set() resolved
\* to exactly "admin"; and the store changes only in the step of such a request.
C3_ModeratorCannotSetRoles ==
  /\ [](\A r \in 1..MaxReq :
          LET q == reqs[r]
          IN q.ep = "/roles/set"
             => /\ (q.role = "moderator"
                    => /\ Answered(q, 403) /\ q.out[1].body = [error |-> "Admins only"]
                       /\ ~InTrace(q, "roles.set"))
                /\ (InTrace(q, "roles.set") => q.role = "admin" /\ LowerTrim(q.snap) = "admin"))
  /\ [][roles' # roles
        => \E r \in 1..MaxReq :
             /\ reqs[r].pc = "write" /\ reqs[r].role = "admin"
             /\ roles' = [roles EXCEPT ![reqs[r].body.uid] = reqs[r].body.role]]_vars

C3_Witness ==
  \E r \in 1..MaxReq :
    /\ reqs[r].ep = "/roles/set" /\ reqs[r].role = "moderator"
    /\ Answered(reqs[r], 403) /\ reqs[r].snap = "moderator"

\* C4 as stated: with the role store, a verified caller whose role record is
\* "moderator" is not answered 403 on /sign and /cloudinary/delete.
C4_ModeratorPassesEverywhere ==
  \A r \in 1..MaxReq :
    LET q == reqs[r]
    IN UsesRoleStore /\ q.ep \in {"/sign", "/cloudinary/delete"} /\ q.user.ok
       /\ q.snap = "moderator"
       => \A i \in 1..Len(q.out) : q.out[i].status # 403

\* C4 as amended: such a caller passes the gate of part_000
\* (requireAdminOrModeratorByRolesDoc) on both endpoints and enters the
\* handler; the gate of the first index.js variant (requireAdmin) answers
\* 403 "Not admin" on both.
C4_ModeratorPassesRolesDocOnly ==
  \A r \in 1..MaxReq :
    LET q == reqs[r]
    IN UsesRoleStore /\ q.ep \in {"/sign", "/cloudinary/delete"} /\ q.user.ok
       /\ q.snap = "moderator"
       => IF variant = "rolesDoc"
          THEN /\ q.role = "moderator"
               /\ \A i \in 1..Len(q.out) : q.out[i].status # 403
               /\ (q.ep = "/sign" => q.pc = "done")
               /\ (q.ep = "/cloudinary/delete" => q.pc \in {"done", "remote"})
          ELSE Answered(q, 403) /\ q.out[1].body = [error |-> "Not admin"]

C4_Witness ==
  \E r \in 1..MaxReq :
    /\ variant = "rolesDoc" /\ reqs[r].ep = "/cloudinary/delete"
    /\ reqs[r].snap = "moderator" /\ reqs[r].pc = "remote"

\* C5: when the credential provider is not initialised, every request to a
\* protected endpoint is answered 500 "Firebase Admin not initialized".
C5_NotInitializedIs500 ==
  \A r \in 1..MaxReq :
    LET q == reqs[r]
    IN variant # "open" /\ ~fbInit /\ q.pc = "done"
       => Answered(q, 500) /\ q.out[1].body.error = "Firebase Admin not initialized"

\* C6: a /sign request that passed the gate and whose folder is absent or ""
\* is answered 400 "folder required" and nothing is hashed, whatever public_id
\* and the server configuration are.
C6_FolderRequired ==
  \A r \in 1..MaxReq :
    LET q == reqs[r]
    IN Live(q) /\ q.ep = "/sign" /\ PassedGate(q) /\ Falsy(q.body.folder)
       => /\ Answered(q, 400) /\ q.out[1].body = [error |-> "folder required"]
          /\ ~InTrace(q, "sha1") /\ ~HasSignature(q)

C6_Witness ==
  \E r \in 1..MaxReq :
    /\ variant = "rolesDoc" /\ ~envSet /\ reqs[r].ep = "/sign" /\ PassedGate(reqs[r])
    /\ reqs[r].body.folder = "" /\ reqs[r].body.public_id = "p1" /\ Answered(reqs[r], 400)

\* C7: in every 200 answer of /sign the hashed string is folder=<folder>, then
\* public_id=<public_id> when the caller sent a non-empty one, then
\* timestamp=<timestamp>, joined by "&", with the API secret appended; the
\* timestamp is the server's clock, is the one returned, and is not the body's.
C7_SignedString ==
  \A r \in 1..MaxReq :
    LET q == reqs[r]
    IN q.ep = "/sign" /\ Answered(q, 200)
       => LET b == q.out[1].body
              pid == q.body.public_id
              expected == "folder=" \o q.body.folder
                          \o (IF pid \in {Absent, Null, ""} THEN "" ELSE "&public_id=" \o pid)
                          \o "&timestamp=" \o DecStr(now)
          IN /\ b.timestamp = now
             /\ b.folder = q.body.folder
             /\ b.signature = Sha1Hex(expected \o API_SECRET)
             /\ ("stringToSign" \in DOMAIN b => b.stringToSign = expected)

C7_Witness ==
  \E r \in 1..MaxReq :
    /\ reqs[r].ep = "/sign" /\ Answered(reqs[r], 200)
    /\ reqs[r].body.timestamp = <<7>>
    /\ reqs[r].out[1].body.signature = Sha1Hex("folder=x&public_id=p1&timestamp=1001abc")

\* The remote destroy call of the request has settled.
Settled(q) == q.ep = "/cloudinary/delete" /\ q.pc = "done" /\ q.recv # NoResp
RemoteOk(q) == q.recv.net /\ q.recv.status \in 200..299

\* C8 as stated: after the remote call, success is answered 200 with exactly
\* {ok: true, public_id, result}, result being the remote outcome; a failed
\* call or a non-2xx answer is answered 500.
C8_DeleteResponseShape ==
  \A r \in 1..MaxReq :
    LET q == reqs[r]
    IN Settled(q)
       => IF RemoteOk(q)
          THEN /\ Answered(q, 200)
               /\ DOMAIN q.out[1].body = {"ok", "public_id", "result"}
               /\ q.out[1].body.ok
               /\ q.out[1].body.public_id = q.body.public_id
               /\ q.out[1].body.result = JsonOrText(q.recv.text)
          ELSE Answered(q, 500)

\* C8 as amended: success is answered 200 with ok: true and the remote outcome
\* unchanged, as {ok, public_id, result} by the first index.js variant and as
\* {ok, cloudinary}, without public_id, by part_000; a failed call or a
\* non-2xx answer is answered 500.
C8_DeleteOutcome ==
  \A r \in 1..MaxReq :
    LET q == reqs[r]
    IN Settled(q)
       => IF RemoteOk(q)
          THEN /\ Answered(q, 200)
               /\ q.out[1].body.ok
               /\ IF variant = "rolesDoc"
                  THEN /\ DOMAIN q.out[1].body = {"ok", "cloudinary"}
                       /\ q.out[1].body.cloudinary = JsonOrText(q.recv.text)
                  ELSE /\ DOMAIN q.out[1].body = {"ok", "public_id", "result"}
                       /\ q.out[1].body.public_id = q.body.public_id
                       /\ q.out[1].body.result = JsonOrText(q.recv.text)
          ELSE Answered(q, 500)

C8_Witness ==
  \E r \in 1..MaxReq :
    /\ variant = "rolesDoc" /\ Settled(reqs[r]) /\ reqs[r].body.public_id = "p1"
    /\ reqs[r].recv.text = "{\"result\":\"not found\"}"
    /\ reqs[r].out[1].body = [ok |-> TRUE, cloudinary |-> [result |-> "not found"]]

\* C9: a request is answered at most once; once it is answered its chain has
\* ended and the answer is the last thing the chain did (no check, lookup,
\* hash, remote call or write follows it); an ended chain answered exactly once.
C9_ShortCircuit ==
  \A r \in 1..MaxReq :
    LET q == reqs[r]
    IN /\ Len(q.out) <= 1
       /\ (q.out # <<>>
           => /\ q.pc = "done"
              /\ q.trace[Len(q.trace)] = "res"
              /\ \A i \in 1..(Len(q.trace) - 1) : q.trace[i] # "res")
       /\ (q.pc = "done" => Len(q.out) = 1)

C9_Witness ==
  \E r \in 1..MaxReq :
    /\ reqs[r].ep = "/roles/set" /\ Answered(reqs[r], 403)
    /\ reqs[r].snap = "user"
    /\ reqs[r].trace = <<"verifyIdToken", "roles.get", "res">>

\* The stored role lets the caller through the variant's gate and, on
\* /roles/set, through the handler's admin check.
Permitted(stored, ep) ==
  IF variant = "roleAdmin" THEN stored = "admin"
  ELSE IF ep = "/roles/set" THEN LowerTrim(stored) = "admin"
  ELSE LowerTrim(stored) \in {"admin", "moderator"}

\* C10: the gate decides by the role the store holds when the lookup is
\* served: the snapshot is the stored role of the caller at that step, the
\* request is answered 403 exactly when that role is not permitted, and a
\* /roles/set answered 200 has stored the new role.
C10_RoleReadFresh ==
  /\ [][\A r \in 1..MaxReq :
          reqs[r].pc = "role" /\ reqs'[r].pc # "role"
          => LET q == reqs'[r]
                 stored == roles[reqs[r].user.uid]
             IN /\ q.snap \in {stored, GetFailed}
                /\ (q.snap # GetFailed => (Answered(q, 403) <=> ~Permitted(stored, q.ep)))]_vars
  /\ [][\A r \in 1..MaxReq :
          reqs[r].pc = "write" /\ Answered(reqs'[r], 200)
          => roles'[reqs[r].body.uid] = reqs[r].body.role]_vars

C10_Witness ==
  \E r \in 1..MaxReq :
    /\ reqs[r].user.uid = "u2" /\ roles["u2"] = "user" /\ reqs[r].snap = "user"
    /\ reqs[r].ep = "/sign" /\ Answered(reqs[r], 403)

\* The signature of the 200 body b covers folder and timestamp only.
SignedWithoutPublicId(b) ==
  b.signature = Sha1Hex("folder=" \o b.folder \o "&timestamp=" \o DecStr(b.timestamp)
                        \o API_SECRET)

\* C11: in every 200 answer of /sign the echoed public_id agrees with what was
\* signed: it is null exactly when the signed parameters hold no public_id,
\* and otherwise it is the public_id that was signed.
C11_EchoAgreesWithSigned ==
  \A r \in 1..MaxReq :
    LET q == reqs[r]
    IN q.ep = "/sign" /\ Answered(q, 200)
       => LET b == q.out[1].body
          IN /\ b.public_id = Null <=> SignedWithoutPublicId(b)
             /\ b.public_id # Null
                => b.signature = Sha1Hex("folder=" \o b.folder \o "&public_id=" \o b.public_id
                                         \o "&timestamp=" \o DecStr(b.timestamp)
                                         \o API_SECRET)

====
